---- MODULE Spec2Model ----
(***************************************************************************)
(* A model of the blog scraping pipeline of tech-blog-recom:               *)
(*   - MetaEngineeringScraper (RSS pass + paginated API pass, seen-set),    *)
(*   - GoogleResearchScraper._rate_limit (the rate limiter),                *)
(*   - the two HTTP fetch paths (BlogScraper.scrape and                     *)
(*     GoogleResearchScraper._fetch_full_content),                          *)
(*   - the per-source thread pool of the scrape command (cli.py),           *)
(*   - Database.save_post (database.py),                                    *)
(*   - extract_metadata and extract_blog_links of the index-based scrapers. *)
(* Each part has its own next-state relation and specification; the        *)
(* variables of the other parts stay at their initial values.              *)
(***************************************************************************)
EXTENDS Integers, Sequences, FiniteSets, TLC

VARIABLES
    \* ---- MetaEngineeringScraper (src/scrapers/meta_engineering.py)
    processed_urls,   \* self.processed_urls
    pc,               \* position of the scrape() generator
    feedLen,          \* len(feed.entries)
    rssIdx,           \* index of the RSS entry processed next
    page,             \* the page argument of _fetch_graphql_posts
    postsLen,         \* len(posts) of the current page
    postIdx,          \* index of the post processed next
    header,           \* X-WP-TotalPages of the current response
    requested,        \* history: the pages requested in this run, in order
    emitted,          \* history: the entries yielded in this run, in order
    prevRun,          \* history: the URLs the previous run yielded
    firstSeenBy,      \* history: per URL, the channel that first met it in this run
    firstValidBy,     \* history: per URL, the channel that first had a valid item for it
    suppressed,       \* history: <<URL, channel>> of the items skipped as seen in this run
    origin,           \* history: the place in the source of the item emitted last
    answer,           \* history: what the page request made last in this run gave
    site,             \* the feed and API contents, when they are fixed across runs
    \* ---- GoogleResearchScraper._rate_limit (src/scrapers/google_research.py)
    clock,            \* time.time(), in ticks of half a second
    last_request_time, \* self.last_request_time
    rl,               \* per caller: position in _rate_limit, its now, its wake-up time
    returns,          \* history: the returns of _rate_limit, in order
    \* ---- one HTTP fetch: BlogScraper.scrape (src/scraper.py) or
    \*      GoogleResearchScraper._fetch_full_content
    fPath,            \* "blog" or "google" ("none" before the first fetch)
    fScheme,          \* the URL's scheme
    fPc,              \* position in the fetch
    fTries,           \* retries made by the current session.get
    fLog,             \* history: the outcomes of the requests of this fetch
    fRetried,         \* history: the outcomes after which a request was retried
    fBackoffs,        \* history: the backoff waits of this fetch
    fResult,          \* what the fetch returned ("pending" until it returns)
    fParsed,          \* history: the request of this fetch whose response was parsed
    \* ---- the scrape command (src/cli.py)
    cliPc,            \* position in scrape(): "start", "loop", "pool", "done"
    sources,          \* the source names still to process
    width,            \* the workers option
    task,             \* the futures of the current source, by link index
    saved,            \* history: the links whose record was given to db.save_post
    reported,         \* history: the links echoed as failed
    limit,            \* the limit option
    wanted,           \* history: the source names the run processes
    visit,            \* history: the source visited last and what was done for it
    found,            \* its index page and what find_blog_links returned for it
    writing,          \* the calls of db.save_post (and of the JSON writing) in progress
    \* ---- one feed, item by item, through a feed-based scraper
    iScraper,         \* "meta" or "google" ("none" before the first feed)
    iItem,            \* the feed item processed last
    iOut,             \* what the scraper made of it
    iItems,           \* history: the items of the feed processed so far
    iEntries,         \* history: the entries yielded for them
    \* ---- AllThingsDistributedScraper.extract_metadata
    soup,             \* the page given last
    metadata,         \* the title returned for it (empty before the first call)
    \* ---- Database (src/database.py)
    dbPosts,          \* the rows of the posts table
    dbSeq,            \* the largest id the table has given out (AUTOINCREMENT)
    dbLast,           \* history: per URL, the post_data of the last successful save
    dbReturned,       \* what the last call of save_post returned
    \* ---- extract_metadata of the index-based scrapers
    postScraper,      \* the source whose scraper was called last ("none" before)
    postPage,         \* the post page given to it
    postMeta,         \* the dict it returned
    \* ---- extract_blog_links of the index-based scrapers
    linkScraper,      \* the source whose scraper is called ("none" before)
    linkPc,           \* "idle", "loop" (over the page), "returned"
    linkPage,         \* the elements of the index page met so far, in document order
    blogLinks,        \* the list links of extract_blog_links
    \* ---- politeness, all fetch paths
    waited,           \* sources with a rate-limiter wait since their last GET
    unguarded         \* history: sources that got a GET with no wait before it

metaVars == <<processed_urls, pc, feedLen, rssIdx, page, postsLen, postIdx, header,
              requested, emitted, prevRun, firstSeenBy, firstValidBy, suppressed,
              origin, answer, site>>
politeVars == <<waited, unguarded>>
rateVars == <<clock, last_request_time, rl, returns>>
fetchVars ==
    <<fPath, fScheme, fPc, fTries, fLog, fRetried, fBackoffs, fResult, fParsed>>
cliVars ==
    <<cliPc, sources, width, task, saved, reported, limit, wanted, visit,
      found, writing>>
itemVars == <<iScraper, iItem, iOut, iItems, iEntries>>
pageVars == <<soup, metadata>>
dbVars == <<dbPosts, dbSeq, dbLast, dbReturned>>
postVars == <<postScraper, postPage, postMeta>>
linkVars == <<linkScraper, linkPc, linkPage, blogLinks>>
vars ==
    <<metaVars, politeVars, rateVars, fetchVars, cliVars, itemVars,
      pageVars, dbVars, postVars, linkVars>>
nonMetaVars ==
    <<rateVars, fetchVars, cliVars, itemVars, pageVars, dbVars, postVars,
      linkVars>>
nonRateVars ==
    <<metaVars, politeVars, fetchVars, cliVars, itemVars, pageVars, dbVars,
      postVars, linkVars>>
nonFetchVars ==
    <<metaVars, rateVars, cliVars, itemVars, pageVars, dbVars, postVars,
      linkVars>>
nonCliVars ==
    <<metaVars, politeVars, rateVars, fetchVars, itemVars, pageVars,
      dbVars, postVars, linkVars>>
nonItemVars ==
    <<metaVars, politeVars, rateVars, fetchVars, cliVars, pageVars, dbVars,
      postVars, linkVars>>
nonPageVars ==
    <<metaVars, politeVars, rateVars, fetchVars, cliVars, itemVars, dbVars,
      postVars, linkVars>>
nonDbVars ==
    <<metaVars, politeVars, rateVars, fetchVars, cliVars, itemVars,
      pageVars, postVars, linkVars>>
nonPostVars ==
    <<metaVars, politeVars, rateVars, fetchVars, cliVars, itemVars,
      pageVars, dbVars, linkVars>>
nonLinkVars ==
    <<metaVars, politeVars, rateVars, fetchVars, cliVars, itemVars,
      pageVars, dbVars, postVars>>

(***************************************************************************)
(* Bounds of the model.                                                    *)
(***************************************************************************)
MaxFeed == 2          \* entries of a feed
MaxPosts == 2         \* posts of one API page
RerunMaxFeed == 1     \* entries of a feed, when the contents are fixed
RerunPages == 1       \* non-empty API pages, when the contents are fixed
MaxClock == 7         \* the last tick of the clock
MaxCalls == 3         \* calls of _rate_limit
MaxLinks == 3         \* links found for one source
MaxWorkers == 2       \* the largest workers option
MaxSources == 2       \* source names given to the command
MaxLimit == 2         \* the largest limit option
LoopMaxLinks == 2     \* links on an index page, in the loop over the sources
MaxItems == 3         \* items of a feed
MaxSaves == 3         \* successful calls of save_post
MaxElems == 2         \* elements of an index page

URLs == {"u1", "u2"}
NoLink == "nolink"    \* a missing (or, for the API, empty) link

(***************************************************************************)
(* Text is a sequence of tokens: markup, words and the boilerplate phrases  *)
(* _clean_content removes.                                                  *)
(***************************************************************************)
Tags == {"<p>"}
Boilerplate == {"Read More...", "The post", "appeared first on Engineering at Meta."}
Empty == <<>>

\* _clean_content: markup is stripped (get_text), whitespace is normalised,
\* the boilerplate phrases are removed.
CleanContent(content) ==
    SelectSeq(content, LAMBDA t : t \notin Tags /\ t \notin Boilerplate)

SeqsUpTo(S, n) == UNION {[1..k -> S] : k \in 0..n}

(***************************************************************************)
(* The inputs of the Meta Engineering scraper.                             *)
(*                                                                         *)
(* An RSS entry, with the attributes _process_rss_entry reads: link,       *)
(* title (hasattr + value), content[0].value (hasattr + value), summary.   *)
(***************************************************************************)
RssItem(l, ht, t, hc, c, s) ==
    [link |-> l, hasTitle |-> ht, title |-> t, hasContent |-> hc,
     content |-> c, summary |-> s]

RssEntries ==
    \* a complete entry
    {RssItem(l, TRUE, <<"w">>, TRUE, <<"<p>", "w">>, <<"w">>) : l \in URLs}
    \* an entry whose embedded content is boilerplate only
    \cup {RssItem(l, TRUE, <<"w">>, TRUE, <<"Read More...">>, <<"w">>) : l \in URLs}
    \* an entry with no title attribute
    \cup {RssItem(l, FALSE, Empty, TRUE, <<"<p>", "w">>, <<"w">>) : l \in URLs}
    \* an entry with no link attribute
    \cup {RssItem(NoLink, TRUE, <<"w">>, TRUE, <<"<p>", "w">>, <<"w">>)}

\* What feedparser.parse gives: it raises, or returns a feed with n entries,
\* the bozo flag, and the feed's own title and link (hasMeta). The entries
\* themselves are read one by one by the loop.
FeedOf(r, b, m, n) == [raises |-> r, bozo |-> b, hasMeta |-> m, n |-> n]

Feeds(n) ==
    {FeedOf(FALSE, FALSE, TRUE, k) : k \in 0..n}
    \cup {FeedOf(TRUE, FALSE, FALSE, 0)}
    \cup {FeedOf(FALSE, b, m, 1) : b \in BOOLEAN, m \in BOOLEAN}

\* A post of the WordPress API: link, title (a dict with "rendered", or
\* something else), content.rendered and excerpt.rendered.
ApiItem(l, tok, t, c, x) ==
    [link |-> l, titleOk |-> tok, title |-> t, content |-> c, excerpt |-> x]

ApiPosts ==
    \* a complete post
    {ApiItem(l, TRUE, <<"<p>", "w">>, <<"<p>", "w">>, <<"w">>) : l \in URLs}
    \* a post whose content and excerpt clean to nothing
    \cup {ApiItem(l, TRUE, <<"w">>, Empty, <<"Read More...">>) : l \in URLs}
    \* a post whose title is not a dict
    \cup {ApiItem(l, FALSE, Empty, <<"<p>", "w">>, <<"w">>) : l \in URLs}
    \* a post with no link
    \cup {ApiItem(NoLink, TRUE, <<"w">>, <<"<p>", "w">>, <<"w">>)}

\* The X-WP-TotalPages header: absent, not an integer, or an integer.
HeaderAbsent == [kind |-> "absent", value |-> 0]
HeaderBad == [kind |-> "bad", value |-> 0]
HeaderInt(n) == [kind |-> "int", value |-> n]
TotalPagesValues == {3, 7}
Headers == {HeaderAbsent, HeaderBad} \cup {HeaderInt(n) : n \in TotalPagesValues}

\* The outcome of one page request: an error (HTTP error status, timeout,
\* invalid JSON), or n posts and the header. The posts themselves are read
\* one by one by the loop.
ResponseOf(k, n, h) == [kind |-> k, n |-> n, header |-> h]
ErrorResponse == ResponseOf("error", 0, HeaderAbsent)
EmptyResponse == ResponseOf("ok", 0, HeaderAbsent)

Responses(n) ==
    {ErrorResponse, EmptyResponse}
    \cup {ResponseOf("ok", k, h) : k \in 1..n, h \in Headers}

\* Fixed contents: a feed with its entries, and the first RerunPages pages
\* of the API, each with one post at most (the pages after them are empty).
PageOf(r, ps) == [resp |-> r, posts |-> ps]

SitePages ==
    {PageOf(ErrorResponse, <<>>), PageOf(EmptyResponse, <<>>)}
    \cup {PageOf(ResponseOf("ok", 1, h), <<p>>) :
            h \in {HeaderAbsent, HeaderInt(7)}, p \in ApiPosts}

SiteOf(f, es, a) == [fixed |-> TRUE, feed |-> f, entries |-> es, api |-> a]

Sites(n, k) ==
    UNION {{SiteOf(f, es, a) : es \in [1..f.n -> RssEntries],
                               a \in [1..k -> SitePages]} :
           f \in Feeds(n)}

NoSite == [fixed |-> FALSE, feed |-> FeedOf(TRUE, FALSE, FALSE, 0),
           entries |-> <<>>, api |-> <<>>]

SiteResponse(p) == IF p \in DOMAIN site.api THEN site.api[p].resp ELSE EmptyResponse

(***************************************************************************)
(* BlogEntry (src/models.py), with the channel that built it.              *)
(***************************************************************************)
BlogEntry(u, t, c, v) == [url |-> u, title |-> t, content |-> c, via |-> v]

EmittedUrls == {emitted[i].url : i \in DOMAIN emitted}

\* _validate_feed
ValidateFeed(f) == f.n # 0 /\ ~f.bozo /\ f.hasMeta

\* _process_rss_entry, lines 119-125: the summary, overridden by the embedded
\* content when the entry has one, then cleaned.
RssContent(e) == CleanContent(IF e.hasContent THEN e.content ELSE e.summary)

\* _process_rss_entry: what happens to an entry, given the seen-set.
\*   "error"   entry.link raises (no link attribute), caught at line 150
\*   "seen"    the URL is in processed_urls (line 109)
\*   "missing" no title attribute (line 113)
\*   "invalid" empty content or empty title (line 128)
\*   "emit"    the URL is marked seen and the entry is returned
RssOutcomeNoSeenCheck(e, seen) ==
    IF e.link = NoLink THEN "error"
    ELSE IF ~e.hasTitle THEN "missing"
    ELSE IF RssContent(e) = Empty \/ e.title = Empty THEN "invalid"
    ELSE "emit"

RssOutcome(e, seen) ==
    IF e.link = NoLink THEN "error"
    ELSE IF e.link \in seen THEN "seen"
    ELSE IF ~e.hasTitle THEN "missing"
    ELSE IF RssContent(e) = Empty \/ e.title = Empty THEN "invalid"
    ELSE "emit"

\* An RSS entry that _process_rss_entry would turn into a BlogEntry if its
\* URL had not been seen.
RssValid(e) == RssOutcome(e, {}) = "emit"

\* _fetch_graphql_posts, lines 179-183: content.rendered, or excerpt.rendered
\* when that is empty, then cleaned.
ApiContent(p) == CleanContent(IF p.content # Empty THEN p.content ELSE p.excerpt)

\* _fetch_graphql_posts, lines 173-205: what happens to a post.
\*   "skip"    no link, or the URL is in processed_urls (line 175)
\*   "raise"   the URL is marked seen (line 192), then building the title
\*             raises and the post is not yielded (line 203)
\*   "emit"    the URL is marked seen and the entry is yielded
ApiOutcomeNoSeenCheck(p, seen) ==
    IF p.link = NoLink THEN "skip"
    ELSE IF ~p.titleOk THEN "raise"
    ELSE "emit"

ApiOutcome(p, seen) ==
    IF p.link = NoLink \/ p.link \in seen THEN "skip"
    ELSE IF ~p.titleOk THEN "raise"
    ELSE "emit"

ApiValid(p) == ApiOutcome(p, {}) = "emit"

\* line 208: int(response.headers.get("X-WP-TotalPages", 1))
TotalPages(h) == IF h.kind = "absent" THEN 1 ELSE h.value

\* line 209: the page cap
PageCap == 5

\* line 209: whether page p + 1 is requested
MorePagesNoCap(p, h) == p < TotalPages(h)

MorePages(p, h) == p < TotalPages(h) /\ p < PageCap

(***************************************************************************)
(* MetaEngineeringScraper: the initial state (after __init__) and the      *)
(* steps of scrape().                                                      *)
(***************************************************************************)
NoChannel == [u \in URLs |-> "none"]

\* The place of an item: the channel, the API page (0 for the feed) and the
\* index in the feed or in the page's response.
Place(ch, p, i) == [chan |-> ch, page |-> p, idx |-> i]
NoPlace == Place("none", 0, 0)

\* line 210: the page asked for after page p
NextPageSame(p) == p

NextPageBack(p) == p - 1

NextPage(p) == p + 1

MetaInit ==
    /\ processed_urls = {}
    /\ pc = "idle"
    /\ feedLen = 0
    /\ rssIdx = 1
    /\ page = 1
    /\ postsLen = 0
    /\ postIdx = 1
    /\ header = HeaderAbsent
    /\ requested = <<>>
    /\ emitted = <<>>
    /\ prevRun = [ran |-> FALSE, urls |-> {}]
    /\ firstSeenBy = NoChannel
    /\ firstValidBy = NoChannel
    /\ suppressed = {}
    /\ origin = NoPlace
    /\ answer = "none"

PoliteInit ==
    /\ waited = {}
    /\ unguarded = {}

\* The first channel that met URL u in this run.
NoteChannel(f, u, ch) ==
    IF u \in URLs /\ f[u] = "none" THEN [f EXCEPT ![u] = ch] ELSE f

\* A call of scrape(): a new generator on the same scraper object. The
\* seen-set is the object's, and is left as it is.
StartScrape ==
    /\ pc \in {"idle", "done", "raised"}
    /\ pc' = "parse"
    /\ prevRun' = IF pc = "idle" THEN prevRun
                  ELSE [ran |-> TRUE, urls |-> EmittedUrls]
    /\ emitted' = <<>>
    /\ requested' = <<>>
    /\ firstSeenBy' = NoChannel
    /\ firstValidBy' = NoChannel
    /\ suppressed' = {}
    /\ origin' = NoPlace
    /\ answer' = "none"
    /\ UNCHANGED <<processed_urls, feedLen, rssIdx, page, postsLen, postIdx,
                   header, site, politeVars>>
    /\ UNCHANGED nonMetaVars

\* scrape(), lines 220-222: feedparser.parse and _validate_feed. An exception
\* is logged and raised again; an invalid feed skips the RSS loop.
ParseFeed(f) ==
    /\ pc = "parse"
    /\ IF f.raises
       THEN pc' = "raised" /\ UNCHANGED <<feedLen, rssIdx>>
       ELSE IF ValidateFeed(f)
       THEN pc' = "rss" /\ feedLen' = f.n /\ rssIdx' = 1
       ELSE pc' = "api" /\ UNCHANGED <<feedLen, rssIdx>>
    /\ page' = 1
    /\ UNCHANGED <<processed_urls, postsLen, postIdx, header, requested, emitted,
                   prevRun, firstSeenBy, firstValidBy, suppressed, origin, answer,
                   site, politeVars>>
    /\ UNCHANGED nonMetaVars

\* scrape(), lines 223-226: one turn of the RSS loop, on entry e.
RssEntry(e) ==
    /\ pc = "rss"
    /\ LET o == RssOutcome(e, processed_urls)
       IN /\ processed_urls' = IF o = "emit" THEN processed_urls \cup {e.link}
                               ELSE processed_urls
          /\ emitted' = IF o = "emit"
                        THEN Append(emitted,
                                    BlogEntry(e.link, e.title, RssContent(e), "rss"))
                        ELSE emitted
          /\ firstSeenBy' = NoteChannel(firstSeenBy, e.link, "rss")
          /\ firstValidBy' = IF RssValid(e)
                             THEN NoteChannel(firstValidBy, e.link, "rss")
                             ELSE firstValidBy
          /\ suppressed' = IF o = "seen" THEN suppressed \cup {<<e.link, "rss">>}
                           ELSE suppressed
          /\ origin' = IF o = "emit" THEN Place("rss", 0, rssIdx) ELSE origin
    /\ IF rssIdx = feedLen
       THEN pc' = "api" /\ feedLen' = 0 /\ rssIdx' = 1
       ELSE pc' = "rss" /\ feedLen' = feedLen /\ rssIdx' = rssIdx + 1
    /\ UNCHANGED <<page, postsLen, postIdx, header, requested, prevRun, answer,
                   site, politeVars>>
    /\ UNCHANGED nonMetaVars

\* _fetch_graphql_posts, lines 165-170 and 212: a request that raises
\* (session.get, raise_for_status, response.json) is caught by the handler of
\* the pass, and an empty page returns; both end the pass.
EndsPassOnlyEmpty(r) == r.kind # "error" /\ r.n = 0

EndsPass(r) == r.kind = "error" \/ r.n = 0

\* What a page request gave: "error", "empty" or "posts".
AnswerOf(r) ==
    IF r.kind = "error" THEN "error" ELSE IF r.n = 0 THEN "empty" ELSE "posts"

\* _fetch_graphql_posts, lines 158-170: the GET of one page, with no
\* rate-limiter wait before it. An error ends the pass (line 212), and so does
\* an empty page.
ApiGet(r) ==
    /\ pc = "api"
    /\ requested' = Append(requested, page)
    /\ answer' = AnswerOf(r)
    /\ unguarded' = IF "meta" \in waited THEN unguarded ELSE unguarded \cup {"meta"}
    /\ waited' = waited \ {"meta"}
    /\ IF EndsPass(r)
       THEN pc' = "done" /\ UNCHANGED <<postsLen, postIdx, header>>
       ELSE pc' = "posts" /\ postsLen' = r.n /\ postIdx' = 1 /\ header' = r.header
    /\ UNCHANGED <<processed_urls, feedLen, rssIdx, page, emitted, prevRun,
                   firstSeenBy, firstValidBy, suppressed, origin, site>>
    /\ UNCHANGED nonMetaVars

\* _fetch_graphql_posts, lines 172-205: one turn of the loop over the posts,
\* on post p.
ApiPost(p) ==
    /\ pc = "posts"
    /\ postIdx <= postsLen
    /\ LET o == ApiOutcome(p, processed_urls)
       IN /\ processed_urls' = IF o \in {"emit", "raise"}
                               THEN processed_urls \cup {p.link}
                               ELSE processed_urls
          /\ emitted' = IF o = "emit"
                        THEN Append(emitted,
                                    BlogEntry(p.link, CleanContent(p.title),
                                              ApiContent(p), "api"))
                        ELSE emitted
          /\ firstSeenBy' = NoteChannel(firstSeenBy, p.link, "api")
          /\ firstValidBy' = IF ApiValid(p)
                             THEN NoteChannel(firstValidBy, p.link, "api")
                             ELSE firstValidBy
          /\ suppressed' = IF o = "skip" /\ p.link \in URLs
                           THEN suppressed \cup {<<p.link, "api">>}
                           ELSE suppressed
          /\ origin' = IF o = "emit" THEN Place("api", page, postIdx) ELSE origin
    /\ postIdx' = postIdx + 1
    /\ UNCHANGED <<pc, feedLen, rssIdx, page, postsLen, header, requested,
                   prevRun, answer, site, politeVars>>
    /\ UNCHANGED nonMetaVars

\* _fetch_graphql_posts, lines 207-213: after the last post, the header is
\* read (a non-integer raises, which ends the pass) and the next page is
\* requested or the pass ends.
ApiPaginate ==
    /\ pc = "posts"
    /\ postIdx > postsLen
    /\ IF header.kind # "bad" /\ MorePages(page, header)
       THEN pc' = "api" /\ page' = NextPage(page)
       ELSE pc' = "done" /\ page' = page
    /\ postsLen' = 0
    /\ postIdx' = 1
    /\ UNCHANGED <<processed_urls, feedLen, rssIdx, header, requested, emitted,
                   prevRun, firstSeenBy, firstValidBy, suppressed, origin, answer,
                   site, politeVars>>
    /\ UNCHANGED nonMetaVars

(***************************************************************************)
(* GoogleResearchScraper._rate_limit, lines 38-44, called by the threads   *)
(* of Callers on one scraper object. Time is counted in ticks of half a    *)
(* second; the clock never goes back.                                      *)
(***************************************************************************)
Callers == {"t1", "t2"}

\* line 36: self.min_request_interval = 1.0, in ticks
MinInterval == 2

\* line 43: the argument of time.sleep
SleepTimeWrong(since) == since

SleepTime(since) == MinInterval - since

Resting == [pc |-> "idle", now |-> 0, wake |-> 0, slept |-> FALSE]

\* __init__, line 35: last_request_time = 0. The clock of a running system is
\* far beyond one interval.
RateInit ==
    /\ clock = MinInterval
    /\ last_request_time = 0
    /\ rl = [t \in Callers |-> Resting]
    /\ returns = <<>>

Tick ==
    /\ clock < MaxClock
    /\ clock' = clock + 1
    /\ UNCHANGED <<last_request_time, rl, returns>>
    /\ UNCHANGED nonRateVars

\* line 40: now = time.time()
RlCall(t) ==
    /\ rl[t].pc = "idle"
    /\ Len(returns) + Cardinality({c \in Callers : rl[c].pc # "idle"}) < MaxCalls
    /\ rl' = [rl EXCEPT ![t] = [pc |-> "check", now |-> clock, wake |-> 0,
                                slept |-> FALSE]]
    /\ UNCHANGED <<clock, last_request_time, returns>>
    /\ UNCHANGED nonRateVars

\* lines 41-43: the elapsed time is computed from the shared timestamp, and
\* the caller sleeps for the rest of the interval. time.sleep(d) returns d
\* or more after it was called.
RlCheck(t) ==
    /\ rl[t].pc = "check"
    /\ LET since == rl[t].now - last_request_time
       IN IF since < MinInterval
          THEN rl' = [rl EXCEPT ![t].pc = "sleep",
                                ![t].wake = clock + SleepTime(since),
                                ![t].slept = TRUE]
          ELSE rl' = [rl EXCEPT ![t].pc = "stamp"]
    /\ UNCHANGED <<clock, last_request_time, returns>>
    /\ UNCHANGED nonRateVars

\* time.sleep returns
RlWake(t) ==
    /\ rl[t].pc = "sleep"
    /\ clock >= rl[t].wake
    /\ rl' = [rl EXCEPT ![t].pc = "stamp"]
    /\ UNCHANGED <<clock, last_request_time, returns>>
    /\ UNCHANGED nonRateVars

\* line 44: self.last_request_time = time.time(), and the return
RlStamp(t) ==
    /\ rl[t].pc = "stamp"
    /\ last_request_time' = clock
    /\ returns' = Append(returns, [by |-> t, at |-> clock, slept |-> rl[t].slept])
    /\ rl' = [rl EXCEPT ![t] = Resting]
    /\ UNCHANGED clock
    /\ UNCHANGED nonRateVars

NextRate ==
    \/ Tick
    \/ \E t \in Callers : RlCall(t)
    \/ \E t \in Callers : RlCheck(t)
    \/ \E t \in Callers : RlWake(t)
    \/ \E t \in Callers : RlStamp(t)



(***************************************************************************)
(* One HTTP fetch.                                                         *)
(*   "blog":   BlogScraper.scrape, src/scraper.py lines 35-65: a random     *)
(*             delay, a new requests.Session (no retry adapter), a warm-up  *)
(*             GET whose status is not looked at, the real GET with         *)
(*             raise_for_status, then the extraction; any exception gives   *)
(*             None.                                                       *)
(*   "google": GoogleResearchScraper._fetch_full_content, lines 109-160:    *)
(*             _rate_limit, one GET through the session of __init__, whose  *)
(*             "https://" adapter retries (lines 28-33), raise_for_status,  *)
(*             then the extraction; an exception or no content gives "".    *)
(* A request ends in a response with a status code or in a transport       *)
(* timeout.                                                                *)
(***************************************************************************)
StatusOf(c) == [kind |-> "status", code |-> c]
TimedOut == [kind |-> "timeout", code |-> 0]
Outcomes == {StatusOf(c) : c \in {200, 404, 500, 502, 503, 504}} \cup {TimedOut}

\* google_research.py line 29: Retry(total=3); a session with no adapter
\* mounted (scraper.py line 42, or a URL that is not https) does not retry.
RetryTotal(path, scheme) ==
    IF path = "google" /\ scheme = "https" THEN 3 ELSE 0

\* google_research.py line 31: status_forcelist
StatusForcelistAllErrors(path, scheme) ==
    IF path = "google" /\ scheme = "https" THEN {404, 500, 502, 503, 504} ELSE {}

StatusForcelist(path, scheme) ==
    IF path = "google" /\ scheme = "https" THEN {500, 502, 503, 504} ELSE {}

\* What the retrying adapter retries: a transport timeout, or a status of the
\* force list.
Retryable(o, path, scheme) ==
    \/ o.kind = "timeout"
    \/ o.kind = "status" /\ o.code \in StatusForcelist(path, scheme)

\* response.raise_for_status()
RaisesForStatus(o) == o.kind = "status" /\ o.code >= 400

\* BlogScraper.scrape, lines 37 and 63-65: the try/except turns every failure
\* into None.
ScrapeResultRaising(what) == IF what = "record" THEN "record" ELSE "raised"

ScrapeResult(what) == IF what = "record" THEN "record" ELSE "None"

\* The session a request goes through: the requests.Session() that
\* BlogScraper.scrape creates at line 42 and uses for both GETs (lines 45 and
\* 48), or the scraper's own session (google_research.py line 113).
SessionOfFresh(path, call) ==
    IF path = "blog" THEN (IF call = "warmup" THEN "other" ELSE "local") ELSE "self"

SessionOf(path, call) == IF path = "blog" THEN "local" ELSE "self"

FetchInit ==
    /\ fPath = "none"
    /\ fScheme = "https"
    /\ fPc = "idle"
    /\ fTries = 0
    /\ fLog = <<>>
    /\ fRetried = {}
    /\ fBackoffs = 0
    /\ fResult = "pending"
    /\ fParsed = 0

\* A call of BlogScraper.scrape (line 39: time.sleep(random.uniform(1, 3)))
\* or of _fetch_full_content.
FetchStart(path, scheme) ==
    /\ fPc \in {"idle", "done"}
    /\ fPath' = path
    /\ fScheme' = scheme
    /\ fPc' = IF path = "blog" THEN "jitter" ELSE "ratelimit"
    /\ fTries' = 0
    /\ fLog' = <<>>
    /\ fRetried' = {}
    /\ fBackoffs' = 0
    /\ fResult' = "pending"
    /\ fParsed' = 0
    /\ UNCHANGED politeVars
    /\ UNCHANGED nonFetchVars

\* scraper.py lines 39-42: the random delay ends; no rate limiter is asked.
FetchJitter ==
    /\ fPc = "jitter"
    /\ fPc' = "warmup"
    /\ UNCHANGED <<fPath, fScheme, fTries, fLog, fRetried, fBackoffs, fResult,
                   fParsed>>
    /\ UNCHANGED politeVars
    /\ UNCHANGED nonFetchVars

\* google_research.py line 112: self._rate_limit()
FetchRateLimit ==
    /\ fPc = "ratelimit"
    /\ fPc' = "real"
    /\ waited' = waited \cup {fPath}
    /\ UNCHANGED unguarded
    /\ UNCHANGED <<fPath, fScheme, fTries, fLog, fRetried, fBackoffs, fResult,
                   fParsed>>
    /\ UNCHANGED nonFetchVars

\* One request of session.get (scraper.py lines 45 and 48-51,
\* google_research.py lines 113-114) and what follows from its outcome o.
FetchGet(o) ==
    /\ fPc \in {"warmup", "real"}
    /\ fLog' = Append(fLog, [call |-> fPc, out |-> o,
                              session |-> SessionOf(fPath, fPc)])
    /\ IF fTries = 0
       THEN /\ unguarded' = IF fPath \in waited THEN unguarded
                            ELSE unguarded \cup {fPath}
            /\ waited' = waited \ {fPath}
       ELSE UNCHANGED politeVars
    /\ IF Retryable(o, fPath, fScheme) /\ fTries < RetryTotal(fPath, fScheme)
       THEN \* the adapter waits (backoff) and asks again
            /\ fTries' = fTries + 1
            /\ fBackoffs' = fBackoffs + 1
            /\ fRetried' = fRetried \cup {o}
            /\ UNCHANGED <<fPc, fResult, fParsed>>
       ELSE IF Retryable(o, fPath, fScheme) \/ (fPc = "real" /\ RaisesForStatus(o))
       THEN \* an exception: Timeout, RetryError or HTTPError
            /\ fPc' = "done"
            /\ fResult' = ScrapeResult(IF o.kind = "timeout" THEN "fetch_error"
                                       ELSE "http_error")
            /\ UNCHANGED <<fTries, fBackoffs, fRetried, fParsed>>
       ELSE \* a response is returned to the caller; that of the real GET
            \* is the one given to the parser
            /\ fPc' = IF fPc = "warmup" THEN "real" ELSE "extract"
            /\ fParsed' = IF fPc = "real" THEN Len(fLog) + 1 ELSE fParsed
            /\ fTries' = 0
            /\ UNCHANGED <<fBackoffs, fRetried, fResult>>
    /\ UNCHANGED <<fPath, fScheme>>
    /\ UNCHANGED nonFetchVars

\* The page is parsed and the record (or the content) is extracted; an
\* exception of the extraction, or no content, is a failure.
FetchExtract(ok) ==
    /\ fPc = "extract"
    /\ fPc' = "done"
    /\ fResult' = ScrapeResult(IF ok THEN "record" ELSE "extract_error")
    /\ UNCHANGED <<fPath, fScheme, fTries, fLog, fRetried, fBackoffs, fParsed>>
    /\ UNCHANGED politeVars
    /\ UNCHANGED nonFetchVars

NextFetch ==
    \/ \E path \in {"blog", "google"}, scheme \in {"https", "http"} :
          FetchStart(path, scheme)
    \/ FetchJitter
    \/ FetchRateLimit
    \/ \E o \in Outcomes : FetchGet(o)
    \/ \E ok \in BOOLEAN : FetchExtract(ok)

(***************************************************************************)
(* The scrape command, src/cli.py lines 37-103: for each source, the links *)
(* are found, every link is submitted to a ThreadPoolExecutor whose        *)
(* threads run BlogScraper.scrape, and the main thread handles the         *)
(* futures as they complete.                                               *)
(***************************************************************************)
\* The names of SOURCE_SCRAPERS (src/scrapers/__init__.py) and one that is
\* not registered.
KnownSources ==
    {"Google Research", "AllThingsDistributed", "Martin Kleppmann",
     "Lyft Engineering"}
SourceNames == KnownSources \cup {"Unknown Blog"}
AllSources ==
    <<"Google Research", "AllThingsDistributed", "Martin Kleppmann",
      "Lyft Engineering">>

\* cli.py line 56, scraper.py lines 30 and 108: source_name in SOURCE_SCRAPERS
RegisteredAny(name) == TRUE

Registered(name) == name \in KnownSources

\* scraper.py line 113: source_info["scraper"](base_url).  The scrapers of
\* all_things_distributed.py, kleppmann.py and lyft_engineering.py inherit
\* BaseSourceScraper.__init__(self, base_url) and define both abstract
\* methods.  GoogleResearchScraper defines __init__(self) with no base_url
\* and neither extract_blog_links nor extract_metadata, so the call raises
\* TypeError.
Constructible(name) == name # "Google Research"

\* The limit option: absent (None) or an integer, here a natural number.
NoLimit == [given |-> FALSE, n |-> 0]
LimitOf(n) == [given |-> TRUE, n |-> n]
Limits == {NoLimit} \cup {LimitOf(n) : n \in 0..MaxLimit}

\* scraper.py lines 126-127: "if limit: links = links[:limit]".  None and 0
\* are false.
Truncate(links, lim) ==
    IF ~lim.given \/ lim.n = 0 THEN links
    ELSE SubSeq(links, 1, IF lim.n < Len(links) THEN lim.n ELSE Len(links))

\* The index page of a source: the outcome of its GET and the links that
\* extract_blog_links finds on it, in page order.
IndexPage(ok, n) == [ok |-> ok, links |-> [i \in 1..n |-> i]]
IndexPages(n) == {IndexPage(ok, k) : ok \in BOOLEAN, k \in 0..n}

NoLinks == [links |-> <<>>, count |-> 0, fetched |-> FALSE, discovered |-> <<>>]

\* BlogScraper.find_blog_links, scraper.py lines 104-133: every exception is
\* caught and gives ([], 0).  fetched tells whether the GET of line 120 was
\* issued, discovered is the value of extract_blog_links (line 124).
FindBlogLinks(name, index, lim) ==
    IF ~Registered(name) THEN NoLinks
    ELSE IF ~Constructible(name) THEN NoLinks
    ELSE IF ~index.ok THEN [NoLinks EXCEPT !.fetched = TRUE]
    ELSE [links |-> Truncate(index.links, lim),
          count |-> Len(Truncate(index.links, lim)),
          fetched |-> TRUE,
          discovered |-> index.links]

\* What happens inside BlogScraper.scrape for one link.
ScrapeEvents == {"record", "fetch_error", "http_error", "extract_error"}

Queued == [st |-> "queued", result |-> "pending"]

NotFound == [discovered |-> <<>>, links |-> <<>>, count |-> 0]
NoVisit == [k |-> 0, name |-> "", called |-> FALSE, fetched |-> FALSE]

CliInit ==
    /\ cliPc = "start"
    /\ sources = <<>>
    /\ width = 1
    /\ task = <<>>
    /\ saved = <<>>
    /\ reported = <<>>
    /\ limit = NoLimit
    /\ wanted = <<>>
    /\ visit = NoVisit
    /\ found = NotFound
    /\ writing = {}

\* lines 37-53: the command is called with its sources, limit and workers
\* options; with no source given, all registered sources are processed.
CliStart(srcs, lim, w) ==
    /\ cliPc = "start"
    /\ cliPc' = "loop"
    /\ sources' = IF srcs = <<>> THEN AllSources ELSE srcs
    /\ wanted' = IF srcs = <<>> THEN AllSources ELSE srcs
    /\ limit' = lim
    /\ width' = w
    /\ UNCHANGED <<task, saved, reported, visit, found, writing>>
    /\ UNCHANGED nonCliVars

\* lines 56-59: a source that is not registered is skipped.
CliSkipUnknown ==
    /\ cliPc = "loop"
    /\ sources # <<>>
    /\ ~Registered(Head(sources))
    /\ sources' = Tail(sources)
    /\ visit' = [k |-> visit.k + 1, name |-> Head(sources), called |-> FALSE,
                 fetched |-> FALSE]
    /\ found' = NotFound
    /\ task' = <<>>
    /\ saved' = <<>>
    /\ reported' = <<>>
    /\ UNCHANGED <<cliPc, width, limit, wanted, writing>>
    /\ UNCHANGED nonCliVars

\* line 67: "if not links"
HasNoLinksNever(links) == FALSE

HasNoLinks(links) == links = <<>>

\* lines 63-75: find_blog_links is called for the source, whose index page
\* is index; with no link the source is skipped, else every link is
\* submitted to the pool.
CliDiscover(index) ==
    /\ cliPc = "loop"
    /\ sources # <<>>
    /\ Registered(Head(sources))
    /\ LET r == FindBlogLinks(Head(sources), index, limit) IN
          /\ found' = [discovered |-> r.discovered, links |-> r.links,
                       count |-> r.count]
          /\ visit' = [k |-> visit.k + 1, name |-> Head(sources),
                       called |-> TRUE, fetched |-> r.fetched]
          /\ task' = [i \in 1..Len(r.links) |-> Queued]
          /\ saved' = <<>>
          /\ reported' = <<>>
          /\ IF HasNoLinks(r.links)
             THEN /\ sources' = Tail(sources)
                  /\ UNCHANGED cliPc
             ELSE /\ cliPc' = "pool"
                  /\ UNCHANGED sources
    /\ UNCHANGED <<width, limit, wanted, writing>>
    /\ UNCHANGED nonCliVars

Running == {i \in DOMAIN task : task[i].st = "running"}

\* line 34: the default of the workers option
DefaultWorkers == 4

\* ThreadPoolExecutor(max_workers=w) starts a queued call only while fewer
\* than w of its threads are busy.
ThreadFreeUnbounded(busy, w) == TRUE

ThreadFree(busy, w) == busy < w

\* A free thread of the pool takes the oldest queued call.
WorkerStart(i) ==
    /\ cliPc = "pool"
    /\ i \in DOMAIN task
    /\ task[i].st = "queued"
    /\ \A j \in DOMAIN task : j < i => task[j].st # "queued"
    /\ ThreadFree(Cardinality(Running), width)
    /\ task' = [task EXCEPT ![i].st = "running"]
    /\ UNCHANGED <<cliPc, sources, width, saved, reported>>
    /\ UNCHANGED <<limit, wanted, visit, found, writing>>
    /\ UNCHANGED nonCliVars

\* BlogScraper.scrape returns in its thread.
WorkerFinish(i, what) ==
    /\ cliPc = "pool"
    /\ i \in DOMAIN task
    /\ task[i].st = "running"
    /\ task' = [task EXCEPT ![i] = [st |-> "finished", result |-> ScrapeResult(what)]]
    /\ UNCHANGED <<cliPc, sources, width, saved, reported>>
    /\ UNCHANGED <<limit, wanted, visit, found, writing>>
    /\ UNCHANGED nonCliVars

\* The thread that runs the body of the loop of lines 77-101.
MainThread == "main"

\* lines 77-101: the loop over as_completed runs in the thread of the
\* command, one future after the other: the next future is taken only when
\* the handling of the one before is over.
MainIdleAlways(w) == TRUE

MainIdle(w) == w = {}

\* lines 82-92: as_completed gives a finished future that holds a record, and
\* the main thread enters db.save_post (and then the writing of the JSON
\* file); the threads of the pool go on meanwhile.
SavePost(i) ==
    /\ cliPc = "pool"
    /\ i \in DOMAIN task
    /\ task[i].st = "finished"
    /\ task[i].result = "record"
    /\ MainIdle(writing)
    /\ task' = [task EXCEPT ![i].st = "saving"]
    /\ writing' = writing \cup {[by |-> MainThread, link |-> i]}
    /\ UNCHANGED <<cliPc, sources, width, saved, reported>>
    /\ UNCHANGED <<limit, wanted, visit, found>>
    /\ UNCHANGED nonCliVars

\* lines 77-101: the handling of a finished future ends; its record was
\* saved (and written to the output directory, which may fail: jsonOk), a
\* None is echoed as failed, an exception of future.result() or of the
\* writing is caught and echoed.
Consume(i, jsonOk) ==
    /\ cliPc = "pool"
    /\ i \in DOMAIN task
    /\ \/ task[i].st = "saving"
       \/ task[i].st = "finished" /\ task[i].result # "record" /\ MainIdle(writing)
    /\ task' = [task EXCEPT ![i].st = "handled"]
    /\ writing' = {w \in writing : w.link # i}
    /\ saved' = IF task[i].result = "record" THEN Append(saved, i) ELSE saved
    /\ reported' = IF task[i].result # "record" \/ ~jsonOk
                   THEN Append(reported, i) ELSE reported
    /\ UNCHANGED <<cliPc, sources, width>>
    /\ UNCHANGED <<limit, wanted, visit, found>>
    /\ UNCHANGED nonCliVars

\* lines 72-101: the loop over as_completed ends when every future was
\* given and handled, and the with block then waits for the pool.
AllHandledEarly(t) == \A i \in DOMAIN t : t[i].st # "queued"

AllHandled(t) == \A i \in DOMAIN t : t[i].st = "handled"

\* line 72: the with block ends when every future was handled.
PoolExit ==
    /\ cliPc = "pool"
    /\ AllHandled(task)
    /\ cliPc' = "loop"
    /\ sources' = Tail(sources)
    /\ UNCHANGED <<width, task, saved, reported>>
    /\ UNCHANGED <<limit, wanted, visit, found, writing>>
    /\ UNCHANGED nonCliVars

\* line 103: "Scraping completed!"
CliDone ==
    /\ cliPc = "loop"
    /\ sources = <<>>
    /\ cliPc' = "done"
    /\ UNCHANGED <<sources, width, task, saved, reported>>
    /\ UNCHANGED <<limit, wanted, visit, found, writing>>
    /\ UNCHANGED nonCliVars

\* One step of the command, with its options and the index pages drawn from
\* the given sets.
CliStep(names, lims, widths, pages) ==
    \/ \E srcs \in SeqsUpTo(names, MaxSources), lim \in lims, w \in widths :
          CliStart(srcs, lim, w)
    \/ CliSkipUnknown
    \/ \E index \in pages : CliDiscover(index)
    \/ \E i \in 1..MaxLinks : WorkerStart(i)
    \/ \E i \in 1..MaxLinks, what \in ScrapeEvents : WorkerFinish(i, what)
    \/ \E i \in 1..MaxLinks : SavePost(i)
    \/ \E i \in 1..MaxLinks, jsonOk \in BOOLEAN : Consume(i, jsonOk)
    \/ PoolExit
    \/ CliDone

\* The thread pool: index pages of up to MaxLinks links, pools of up to
\* MaxWorkers threads or of the default width, no limit option.
PoolNames == {"Lyft Engineering", "Unknown Blog"}
NextCli ==
    CliStep(PoolNames, {NoLimit}, (1..MaxWorkers) \cup {DefaultWorkers},
            IndexPages(MaxLinks))

\* The loop over the sources: every kind of source name and every limit
\* option, with shorter index pages and one thread.
LoopNames == {"Google Research", "Lyft Engineering", "Unknown Blog"}
NextSources == CliStep(LoopNames, Limits, {1}, IndexPages(LoopMaxLinks))

(***************************************************************************)
(* One feed item through a feed-based scraper: _process_rss_entry of       *)
(* MetaEngineeringScraper (meta_engineering.py lines 105-152) and one turn *)
(* of the loop of GoogleResearchScraper.scrape (google_research.py lines   *)
(* 166-192).  Beside the fields of an RSS entry, an item has the date      *)
(* fields of feedparser (published_parsed and updated_parsed, present when *)
(* feedparser could parse the date; published and updated, the strings,    *)
(* which strptime can parse or not) and, for Google, the content of the    *)
(* article page (empty when its fetch or extraction failed).               *)
(***************************************************************************)
DateString(has, parses) == [has |-> has, parses |-> parses]
DateStrings == {DateString(FALSE, FALSE), DateString(TRUE, TRUE), DateString(TRUE, FALSE)}

DatedItem(hc, c, s, pp, ps, up, us, pg) ==
    [link |-> "u1", hasTitle |-> TRUE, title |-> <<"w">>, hasContent |-> hc,
     content |-> c, summary |-> s, published_parsed |-> pp, published |-> ps,
     updated_parsed |-> up, updated |-> us, page |-> pg]

\* A date field and its parsed form: feedparser gives the parsed form only
\* for a string it has.
Dates ==
    {d \in [parsed : BOOLEAN, str : DateStrings] : d.parsed => d.str.has}

DatedItems ==
    {DatedItem(hc.has, hc.value, s, p.parsed, p.str, u.parsed, u.str, pg) :
        hc \in {[has |-> FALSE, value |-> Empty], [has |-> TRUE, value |-> Empty],
                [has |-> TRUE, value |-> <<"<p>", "c">>]},
        s \in {Empty, <<"s">>}, p \in Dates, u \in Dates,
        pg \in {Empty, <<"page">>}}

\* _extract_date: the source of the timestamp, "now" for datetime.utcnow()
ExtractDate(d, field) == IF d.has /\ d.parses THEN field ELSE "now"

\* _process_rss_entry, lines 133-139
MetaPublishedAt(e) ==
    IF e.published.has THEN ExtractDate(e.published, "published")
    ELSE IF e.updated.has THEN ExtractDate(e.updated, "updated")
    ELSE "now"

NoEntry == [yielded |-> FALSE, published_at |-> "none", content |-> Empty]
EntryOf(at, c) == [yielded |-> TRUE, published_at |-> at, content |-> c]

\* _process_rss_entry on an item whose URL was not seen
MetaItem(e) ==
    IF RssOutcome(e, {}) = "emit" THEN EntryOf(MetaPublishedAt(e), RssContent(e))
    ELSE NoEntry

\* GoogleResearchScraper.scrape, lines 174-180: the content of the article
\* page, else the embedded content of the feed, else the summary.
GoogleContent(e) ==
    IF e.page # Empty THEN e.page
    ELSE IF e.hasContent /\ e.content # Empty THEN e.content
    ELSE e.summary

\* GoogleResearchScraper.scrape, lines 167-192: entry.published_parsed of an
\* item that has none raises, and the item is skipped (line 188).
GoogleItem(e) ==
    IF ~e.published_parsed \/ ~e.hasTitle THEN NoEntry
    ELSE EntryOf("published_parsed", GoogleContent(e))

ItemInit ==
    /\ iScraper = "none"
    /\ iItem = DatedItem(FALSE, Empty, Empty, FALSE, DateString(FALSE, FALSE),
                         FALSE, DateString(FALSE, FALSE), Empty)
    /\ iOut = NoEntry
    /\ iItems = 0
    /\ iEntries = 0

\* scrape() of scraper s starts reading a feed.
FeedStart(s) ==
    /\ iScraper' = s
    /\ iItems' = 0
    /\ iEntries' = 0
    /\ iOut' = NoEntry
    /\ UNCHANGED iItem
    /\ UNCHANGED nonItemVars

\* The next item of the feed.
FeedItem(e) ==
    /\ iScraper # "none"
    /\ iItems < MaxItems
    /\ iItem' = e
    /\ iOut' = IF iScraper = "meta" THEN MetaItem(e) ELSE GoogleItem(e)
    /\ iItems' = iItems + 1
    /\ iEntries' = IF iOut'.yielded THEN iEntries + 1 ELSE iEntries
    /\ UNCHANGED iScraper
    /\ UNCHANGED nonItemVars

NextItems ==
    \/ \E s \in {"meta", "google"} : FeedStart(s)
    \/ \E e \in DatedItems : FeedItem(e)

(***************************************************************************)
(* AllThingsDistributedScraper.extract_metadata, the title                 *)
(* (all_things_distributed.py lines 24-64).  A text is the sequence of its *)
(* parts between " | " separators, <<>> for the empty text (after strip).  *)
(***************************************************************************)
SiteName == "All Things Distributed"

\* An element of the page that may be missing.
Absent == [present |-> FALSE, text |-> <<>>]
Elem(t) == [present |-> TRUE, text |-> t]

\* The first script of type application/ld+json: none, text that is not
\* JSON, a JSON value that is not a dict or has no headline, or a dict with
\* a headline.
NoJsonLd == [kind |-> "absent", headline |-> <<>>]
BadJsonLd == [kind |-> "invalid", headline |-> <<>>]
PlainJsonLd == [kind |-> "no headline", headline |-> <<>>]
JsonLd(h) == [kind |-> "headline", headline |-> h]

PageOfTitles(og, name, ld, h1, title) ==
    [og |-> og, name |-> name, ld |-> ld, h1 |-> h1, title |-> title]

TitledPages ==
    {PageOfTitles(og, name, ld, h1, title) :
        og \in {Absent, Elem(<<>>), Elem(<<"og">>)},
        name \in {Absent, Elem(<<>>), Elem(<<"name">>)},
        ld \in {NoJsonLd, BadJsonLd, PlainJsonLd, JsonLd(<<>>), JsonLd(<<"ld">>)},
        h1 \in {Absent, Elem(<<>>), Elem(<<"h1">>)},
        title \in {Absent, Elem(<<>>), Elem(<<"t">>), Elem(<<"t", SiteName>>),
                   Elem(<<"a", "b", SiteName>>)}}

\* lines 29-31 and 35-37: the content attribute of a meta element, if any
MetaContent(m) == IF m.present THEN m.text ELSE <<>>

\* lines 41-48: the headline of the JSON-LD script
Headline(ld) == IF ld.kind = "headline" THEN ld.headline ELSE <<>>

\* line 54: h1.text.strip()
H1Text(h) == IF h.present THEN h.text ELSE <<>>

\* line 61: title_tag.text.split(" | ")[0].strip()
TitleTagText(t) == IF t.present /\ t.text # <<>> THEN <<Head(t.text)>> ELSE <<>>

\* "if not title": the next method is tried while the title is empty.
OrElse(t, next) == IF t # <<>> THEN t ELSE next

\* lines 26-64
ExtractTitle(doc) ==
    OrElse(MetaContent(doc.og),
    OrElse(MetaContent(doc.name),
    OrElse(Headline(doc.ld),
    OrElse(H1Text(doc.h1),
    OrElse(TitleTagText(doc.title), <<"Untitled">>)))))

PageInit ==
    /\ soup = PageOfTitles(Absent, Absent, NoJsonLd, Absent, Absent)
    /\ metadata = <<>>

\* extract_metadata(soup, url)
ExtractMetadata(doc) ==
    /\ soup' = doc
    /\ metadata' = ExtractTitle(doc)
    /\ UNCHANGED nonPageVars

NextPages == \E doc \in TitledPages : ExtractMetadata(doc)

(***************************************************************************)
(* Database, src/database.py: the posts table (create_tables, lines 34-52)  *)
(* and save_post (lines 54-86).  A row is kept without its created_at       *)
(* column, which no reader of the model looks at.                           *)
(***************************************************************************)
\* None in post_data, NULL in a row: in a text field, and in the date.
Null == "NULL"
NoDate == [kind |-> "null", v |-> 0]

\* A datetime, and the text isoformat() makes of it.
DateTime(n) == [kind |-> "datetime", v |-> n]
IsoText(n) == [kind |-> "text", v |-> n]

\* lines 60-62: a datetime is stored as its isoformat() text, anything else
\* (None, a string) as it is.
PublishedDate(d) ==
    IF d.kind = "datetime" THEN IsoText(d.v) ELSE d

\* post_data, the dict given to save_post.
PostData(u, t, a, d) ==
    [url |-> u, title |-> t, content |-> "c", author |-> a,
     published_date |-> d, source_name |-> "s"]

PostDatas ==
    {PostData(u, t, a, d) :
        u \in URLs \cup {Null}, t \in {"t1", "t2", Null}, a \in {"a", Null},
        d \in {NoDate, DateTime(1), IsoText(2)}}

\* lines 42-47: url, title, content and source_name are NOT NULL; a NULL in
\* one of them makes the INSERT raise, and save_post returns False.
NotNullOk(d) ==
    d.url # Null /\ d.title # Null /\ d.content # Null /\ d.source_name # Null

\* line 42 and line 66: url is UNIQUE, and INSERT OR REPLACE deletes the
\* rows that conflict with the new one before it is inserted.
ConflictingNone(rows, u) == {}

Conflicting(rows, u) == {r \in rows : r.url = u}

\* The row INSERT OR REPLACE writes for post_data d, with a new id.
RowOf(id, d) ==
    [id |-> id, url |-> d.url, title |-> d.title, content |-> d.content,
     author |-> d.author, published_date |-> PublishedDate(d.published_date),
     source_name |-> d.source_name]

NoSave == [saved |-> FALSE, data |-> PostData(Null, Null, Null, NoDate)]
SaveOf(d) == [saved |-> TRUE, data |-> d]

DbInit ==
    /\ dbPosts = {}
    /\ dbSeq = 0
    /\ dbLast = [u \in URLs |-> NoSave]
    /\ dbReturned = "none"

\* save_post(post_data), lines 54-86: the row is written and committed and
\* True is returned, or the exception is printed and False is returned with
\* the table as it was.
DbSavePost(d) ==
    /\ dbSeq < MaxSaves
    /\ IF NotNullOk(d)
       THEN /\ dbPosts' = (dbPosts \ Conflicting(dbPosts, d.url))
                              \cup {RowOf(dbSeq + 1, d)}
            /\ dbSeq' = dbSeq + 1
            /\ dbLast' = [dbLast EXCEPT ![d.url] = SaveOf(d)]
            /\ dbReturned' = "True"
       ELSE /\ dbReturned' = "False"
            /\ UNCHANGED <<dbPosts, dbSeq, dbLast>>
    /\ UNCHANGED nonDbVars

NextDb == \E d \in PostDatas : DbSavePost(d)

(***************************************************************************)
(* extract_metadata of the index-based scrapers: the title, the date and   *)
(* the author (all_things_distributed.py lines 24-98, kleppmann.py lines    *)
(* 23-52, lyft_engineering.py lines 23-55).                                 *)
(***************************************************************************)
IndexScrapers == {"AllThingsDistributed", "Martin Kleppmann", "Lyft Engineering"}

\* A date written on a page: the format it is in and the day it names.
\*   "B d, Y"  April 09, 2025          "d B Y"  15 April 2024
\*   "iso"     2024-04-15T10:00:00Z    "other"  any other text
\*   "none"    no text (an attribute that is missing or empty)
DateText(f, n) == [fmt |-> f, day |-> n]
NoText == DateText("none", 0)
DateTexts == {NoText, DateText("B d, Y", 1), DateText("d B Y", 2),
              DateText("iso", 3), DateText("other", 0)}

\* The element that holds the date (time, or div.date): missing, or with
\* its text and its datetime attribute.
DateElem(p, txt, attr) == [present |-> p, text |-> txt, datetime |-> attr]
NoDateElem == DateElem(FALSE, NoText, NoText)
DateElems ==
    {NoDateElem}
    \cup {DateElem(TRUE, txt, attr) :
            txt \in DateTexts \ {DateText("iso", 3)},
            attr \in {NoText, DateText("iso", 3), DateText("other", 0)}}

\* The div of class author: missing, or with its text.
AuthorElem(p, n) == [present |-> p, name |-> n]
AuthorElems == {AuthorElem(FALSE, ""), AuthorElem(TRUE, "Jane Doe")}

PostPage(ts, d, a) == [titles |-> ts, date |-> d, author |-> a]

PostPages ==
    {PostPage(PageOfTitles(og, Absent, NoJsonLd, h1, Absent), d, a) :
        og \in {Absent, Elem(<<"og">>)},
        h1 \in {Absent, Elem(<<>>), Elem(<<"h1">>)},
        d \in DateElems, a \in AuthorElems}

\* datetime.strptime(text, format) and datetime.fromisoformat(text): the
\* datetime, or an exception.
ParseDate(txt, f) ==
    IF txt.fmt = f THEN [ok |-> TRUE, val |-> DateTime(txt.day)]
    ELSE [ok |-> FALSE, val |-> NoDate]

\* try: published_date = ... except: pass
OrNone(r) == IF r.ok THEN r.val ELSE NoDate

\* all_things_distributed.py lines 67-75, kleppmann.py lines 28-34,
\* lyft_engineering.py lines 28-36
PostDate(s, doc) ==
    IF ~doc.date.present THEN NoDate
    ELSE IF s = "AllThingsDistributed" THEN OrNone(ParseDate(doc.date.text, "B d, Y"))
    ELSE IF s = "Martin Kleppmann" THEN OrNone(ParseDate(doc.date.text, "d B Y"))
    ELSE IF doc.date.datetime = NoText THEN NoDate
    ELSE OrNone(ParseDate(doc.date.datetime, "iso"))

\* all_things_distributed.py lines 26-64; kleppmann.py lines 24-25 and
\* lyft_engineering.py lines 24-25: title.text.strip() if title else "Untitled"
PostTitle(s, doc) ==
    IF s = "AllThingsDistributed" THEN ExtractTitle(doc.titles)
    ELSE IF doc.titles.h1.present THEN doc.titles.h1.text
    ELSE <<"Untitled">>

\* all_things_distributed.py line 78, kleppmann.py line 37,
\* lyft_engineering.py lines 38-39
PostAuthorFromPage(s, doc) == IF doc.author.present THEN doc.author.name ELSE Null

PostAuthor(s, doc) ==
    IF s = "AllThingsDistributed" THEN "Werner Vogels"
    ELSE IF s = "Martin Kleppmann" THEN "Martin Kleppmann"
    ELSE IF doc.author.present THEN doc.author.name
    ELSE Null

PostInit ==
    /\ postScraper = "none"
    /\ postPage = PostPage(PageOfTitles(Absent, Absent, NoJsonLd, Absent, Absent),
                           NoDateElem, AuthorElem(FALSE, ""))
    /\ postMeta = [title |-> <<>>, author |-> Null, published_date |-> NoDate]

\* extract_metadata(soup, url) of the scraper of source s
PostExtract(s, doc) ==
    /\ postScraper' = s
    /\ postPage' = doc
    /\ postMeta' = [title |-> PostTitle(s, doc),
                    author |-> PostAuthor(s, doc),
                    published_date |-> PostDate(s, doc)]
    /\ UNCHANGED nonPostVars

NextPosts == \E s \in IndexScrapers, doc \in PostPages : PostExtract(s, doc)

(***************************************************************************)
(* extract_blog_links of the index-based scrapers                          *)
(* (all_things_distributed.py lines 13-22, kleppmann.py lines 12-21,        *)
(* lyft_engineering.py lines 12-21): the elements the selector of the       *)
(* scraper finds, in document order, and for each of them the first <a>     *)
(* that has an href attribute, joined to the base URL when the href is not  *)
(* empty.                                                                   *)
(*                                                                         *)
(* A URL, and a reference found in an href, is a scheme, a host and the     *)
(* segments of its path; a reference with no scheme is relative, to the     *)
(* root of the site (rooted) or to the directory of the base.               *)
(***************************************************************************)
Url(scheme, host, path) == [scheme |-> scheme, host |-> host, path |-> path]
Ref(scheme, host, rooted, path) ==
    [scheme |-> scheme, host |-> host, rooted |-> rooted, path |-> path]
EmptyRef == Ref("", "", FALSE, <<>>)          \* href=""

\* base_url of the scrapers, as the command constructs them
BaseUrl(s) ==
    IF s = "AllThingsDistributed"
    THEN Url("https", "www.allthingsdistributed.com", <<"articles.html">>)
    ELSE IF s = "Martin Kleppmann" THEN Url("https", "martin.kleppmann.com", <<"">>)
    ELSE Url("https", "eng.lyft.com", <<"">>)

\* the path without its last segment
Directory(path) == SubSeq(path, 1, Len(path) - 1)

\* a join that keeps the reference as it is
UrlJoinKeep(base, ref) == Url(ref.scheme, ref.host, ref.path)

\* urllib.parse.urljoin(base, ref)
UrlJoin(base, ref) ==
    IF ref.scheme # "" THEN Url(ref.scheme, ref.host, ref.path)
    ELSE IF ref.rooted THEN Url(base.scheme, base.host, ref.path)
    ELSE IF ref.path = <<>> THEN base
    ELSE Url(base.scheme, base.host, Directory(base.path) \o ref.path)

\* An <a> element, with or without an href attribute.
Anchor(hasHref, href) == [hasHref |-> hasHref, href |-> href]
NoAnchor == Anchor(FALSE, EmptyRef)

\* The n-th element of a page links to the n-th post.
PostName(n) == <<"post-1", "post-2", "post-3", "post-4">>[n]
RelativeRef(n) == Ref("", "", FALSE, <<"2024", PostName(n)>>)
RootedRef(n) == Ref("", "", TRUE, <<"2024", PostName(n)>>)
AbsoluteRef(n) == Ref("https", "medium.com", TRUE, <<"p", PostName(n)>>)
AnchorLists(n) ==
    { <<>>,
      <<NoAnchor>>,
      <<NoAnchor, Anchor(TRUE, RelativeRef(n))>>,
      <<Anchor(TRUE, EmptyRef), Anchor(TRUE, RelativeRef(n))>>,
      <<Anchor(TRUE, RelativeRef(n))>>,
      <<Anchor(TRUE, RootedRef(n))>>,
      <<Anchor(TRUE, AbsoluteRef(n))>>,
      <<Anchor(TRUE, RelativeRef(n)), Anchor(TRUE, AbsoluteRef(n))>> }

\* An element of the index page: tag, class, itemprop and its <a>
\* descendants in document order.
Element(tag, class, itemprop, anchors) ==
    [tag |-> tag, class |-> class, itemprop |-> itemprop, anchors |-> anchors]
Elements(n) ==
    { Element(k[1], k[2], k[3], a) :
        k \in { <<"li", "archive-item", "">>, <<"li", "", "">>,
                <<"article", "", "blogPost">>, <<"div", "", "blogPost">> },
        a \in AnchorLists(n) }

\* soup.find_all(...) of the scraper of source s finds element e
Selected(s, e) ==
    IF s = "AllThingsDistributed" THEN e.itemprop = "blogPost"
    ELSE IF s = "Martin Kleppmann" THEN e.tag = "li" /\ e.class = "archive-item"
    ELSE e.tag = "article"

\* item.find("a", href=True): the first <a> with an href attribute, if any
RECURSIVE FindAnchor(_)
FindAnchor(as) ==
    IF as = <<>> THEN NoAnchor
    ELSE IF Head(as).hasHref THEN Head(as)
    ELSE FindAnchor(Tail(as))

\* if link and link["href"]
HasLink(e) == FindAnchor(e.anchors).hasHref /\ FindAnchor(e.anchors).href # EmptyRef

LinkInit ==
    /\ linkScraper = "none"
    /\ linkPc = "idle"
    /\ linkPage = <<>>
    /\ blogLinks = <<>>

\* extract_blog_links(soup) of the scraper of source s is called
LinksCall(s) ==
    /\ linkPc \in {"idle", "returned"}
    /\ linkScraper' = s
    /\ linkPc' = "loop"
    /\ linkPage' = <<>>
    /\ blogLinks' = <<>>
    /\ UNCHANGED nonLinkVars

\* the next element of the page, the n-th: one turn of the loop when the
\* selector found it, nothing otherwise
LinksElement(n, e) ==
    /\ linkPc = "loop"
    /\ n = Len(linkPage) + 1
    /\ linkPage' = Append(linkPage, e)
    /\ blogLinks' = IF Selected(linkScraper, e) /\ HasLink(e)
                    THEN Append(blogLinks, UrlJoin(BaseUrl(linkScraper),
                                                   FindAnchor(e.anchors).href))
                    ELSE blogLinks
    /\ UNCHANGED <<linkScraper, linkPc>>
    /\ UNCHANGED nonLinkVars

\* return links
LinksReturn ==
    /\ linkPc = "loop"
    /\ linkPc' = "returned"
    /\ UNCHANGED <<linkScraper, linkPage, blogLinks>>
    /\ UNCHANGED nonLinkVars

NextLinks ==
    \/ \E s \in IndexScrapers : LinksCall(s)
    \/ \E n \in 1..MaxElems : \E e \in Elements(n) : LinksElement(n, e)
    \/ LinksReturn

(***************************************************************************)
(* The specifications.                                                     *)
(***************************************************************************)
Init ==
    /\ MetaInit /\ PoliteInit /\ RateInit /\ FetchInit /\ CliInit /\ ItemInit
    /\ PageInit /\ DbInit /\ PostInit /\ LinkInit
    /\ site = NoSite

\* Any feed and any API responses, drawn anew at every request.
Next ==
    \/ StartScrape
    \/ \E f \in Feeds(MaxFeed) : ParseFeed(f)
    \/ \E e \in RssEntries : RssEntry(e)
    \/ \E r \in Responses(MaxPosts) : ApiGet(r)
    \/ \E p \in ApiPosts : ApiPost(p)
    \/ ApiPaginate

Spec == Init /\ [][Next]_vars

\* One run of scrape() on a new scraper object, consumed to its end.
NextOnce ==
    \/ pc = "idle" /\ StartScrape
    \/ \E f \in Feeds(MaxFeed) : ParseFeed(f)
    \/ \E e \in RssEntries : RssEntry(e)
    \/ \E r \in Responses(MaxPosts) : ApiGet(r)
    \/ \E p \in ApiPosts : ApiPost(p)
    \/ ApiPaginate

SpecOnce == Init /\ [][NextOnce]_vars

\* The same feed and the same API responses at every run.
InitRerun ==
    /\ MetaInit /\ PoliteInit /\ RateInit /\ FetchInit /\ CliInit /\ ItemInit
    /\ PageInit /\ DbInit /\ PostInit /\ LinkInit
    /\ site \in Sites(RerunMaxFeed, RerunPages)

NextRerun ==
    \/ StartScrape
    \/ ParseFeed(site.feed)
    \/ pc = "rss" /\ RssEntry(site.entries[rssIdx])
    \/ ApiGet(SiteResponse(page))
    \/ pc = "posts" /\ postIdx <= postsLen /\ ApiPost(site.api[page].posts[postIdx])
    \/ ApiPaginate

SpecRerun == InitRerun /\ [][NextRerun]_vars

\* The rate limiter, called by the threads of Callers.
SpecRate == Init /\ [][NextRate]_vars

\* One fetch after another, on either path.
SpecFetch == Init /\ [][NextFetch]_vars

\* One run of the scrape command.
SpecCli == Init /\ [][NextCli]_vars

\* One run of the scrape command, over all kinds of sources and limits.
SpecSources == Init /\ [][NextSources]_vars

\* Feeds read item by item by a feed-based scraper.
SpecItems == Init /\ [][NextItems]_vars

\* Pages given to AllThingsDistributedScraper.extract_metadata.
SpecPages == Init /\ [][NextPages]_vars

\* Calls of Database.save_post on one database.
SpecDb == Init /\ [][NextDb]_vars

\* Post pages given to extract_metadata of the index-based scrapers.
SpecPosts == Init /\ [][NextPosts]_vars

\* Index pages given to extract_blog_links of the index-based scrapers.
SpecLinks == Init /\ [][NextLinks]_vars

(***************************************************************************)
(* Claims about MetaEngineeringScraper.                                    *)
(***************************************************************************)
NoDuplicateUrls ==
    \A i, j \in DOMAIN emitted : emitted[i].url = emitted[j].url => i = j

EmittedVia(u, ch) ==
    \E i \in DOMAIN emitted : emitted[i].url = u /\ emitted[i].via = ch

\* C1, as stated: within one run no URL is emitted twice, and the entry
\* emitted for a URL was built by the channel that met the URL first.
C1_FirstSeenWins ==
    /\ NoDuplicateUrls
    /\ \A i \in DOMAIN emitted : emitted[i].via = firstSeenBy[emitted[i].url]

\* C1, amended: within one run no URL is emitted twice, and the entry emitted
\* for a URL was built by the first channel that had a valid (not dropped)
\* item for that URL.
C1_FirstValidWins ==
    /\ NoDuplicateUrls
    /\ \A i \in DOMAIN emitted : emitted[i].via = firstValidBy[emitted[i].url]

\* A finished run in which a URL the RSS pass emitted came back from the API
\* and was skipped there.
C1_Witness ==
    /\ pc = "done"
    /\ \E u \in URLs : EmittedVia(u, "rss") /\ <<u, "api">> \in suppressed

\* C2: no page is requested before the RSS pass is over, no RSS entry is
\* emitted after an API entry, and no API entry carries a URL that the RSS
\* pass emitted in this run.
C2_RssThenApiSuppressed ==
    /\ pc \in {"parse", "rss"} => requested = <<>>
    /\ \A i, j \in DOMAIN emitted :
          emitted[i].via = "api" /\ emitted[j].via = "rss" =>
              j < i /\ emitted[i].url # emitted[j].url

\* A finished run with an RSS entry, the API's post for the same URL skipped,
\* and another post emitted from the API.
C2_Witness ==
    /\ pc = "done"
    /\ requested # <<>>
    /\ \E u, v \in URLs :
          /\ EmittedVia(u, "rss")
          /\ <<u, "api">> \in suppressed
          /\ EmittedVia(v, "api")

\* C3: the pages requested in one run are 1, 2, ..., k with k <= 5, whatever
\* the total-page headers say.
C3_AtMostFivePages ==
    /\ Len(requested) <= PageCap
    /\ \A i \in DOMAIN requested : requested[i] = i
    /\ page <= PageCap

\* A run that stopped at page 5 although the header announced more pages.
C3_Witness ==
    /\ pc = "done"
    /\ Len(requested) = PageCap
    /\ header.kind = "int"
    /\ header.value > PageCap

\* C4, as stated: a second run against the same contents emits the URLs the
\* run before it emitted.
C4_RerunEmitsSameUrls ==
    pc = "done" /\ prevRun.ran => EmittedUrls = prevRun.urls

\* C9, as stated: no GET is issued without a rate-limiter wait for its source
\* since the source's previous GET.
C9_EveryGetRateLimited == unguarded = {}

(***************************************************************************)
(* Claims about the rate limiter.                                          *)
(***************************************************************************)
\* C5: two returns of _rate_limit to the same caller are at least
\* min_request_interval apart, and the timestamp is the time of the latest
\* return.
C5_CallerReturnsSpaced ==
    /\ \A i, j \in DOMAIN returns :
          i < j /\ returns[i].by = returns[j].by =>
              returns[j].at - returns[i].at >= MinInterval
    /\ returns # <<>> => last_request_time = returns[Len(returns)].at

\* A caller that came back too early, slept, and returned one interval after
\* its previous return.
C5_Witness ==
    \E i, j \in DOMAIN returns :
        /\ i < j
        /\ returns[i].by = returns[j].by
        /\ returns[j].slept
        /\ returns[j].at - returns[i].at = MinInterval

\* C6, as stated: the returns of concurrent callers are at least
\* min_request_interval apart.
C6_ConcurrentReturnsSpaced ==
    \A i, j \in DOMAIN returns :
        i < j => returns[j].at - returns[i].at >= MinInterval

(***************************************************************************)
(* Claims about the HTTP fetch.                                            *)
(***************************************************************************)
CodesOf(log) == [i \in DOMAIN log |-> log[i].out.code]

\* C7, as stated: on every fetch path, the responses 503, 503, 200 give one
\* successful fetch after exactly two backoff waits, and a fetch that only
\* gets 503 fails after exactly 3 retries (4 requests).
C7_RetriesOn503 ==
    fPc \in {"extract", "done"} =>
        /\ (Len(fLog) >= 2 /\ fLog[1].out = StatusOf(503)
                /\ fLog[2].out = StatusOf(503)) => Len(fLog) >= 3
        /\ CodesOf(fLog) = <<503, 503, 200>> => fBackoffs = 2
        /\ (\A i \in DOMAIN fLog : fLog[i].out = StatusOf(503)) =>
               Len(fLog) = 4 /\ fBackoffs = 3 /\ fResult = "None"

Count(seq, x) == Cardinality({k \in DOMAIN seq : seq[k] = x})

\* The pool of the current source has ended.
PipelineOver == cliPc \in {"loop", "done"} /\ task # <<>>

\* C10: BlogScraper.scrape gives a record or None and never raises; no link
\* is handled twice; and when the pool of a source has ended every link was
\* handled once: its record given to save_post, or the link echoed as failed.
C10_EveryLinkHandledOnce ==
    /\ \A i \in DOMAIN task :
          /\ task[i].result \in {"pending", "record", "None"}
          /\ Count(saved, i) <= 1
          /\ Count(saved, i) = 1 => task[i].result = "record"
    /\ PipelineOver =>
          \A i \in DOMAIN task :
              /\ task[i].st = "handled"
              /\ task[i].result = "record" => Count(saved, i) = 1
              /\ task[i].result = "None" =>
                     Count(saved, i) = 0 /\ Count(reported, i) = 1

\* A pool that ended with a failed link and, after it in the list, a link
\* whose record was saved.
C10_Witness ==
    /\ PipelineOver
    /\ \E i, j \in DOMAIN task :
          /\ i < j
          /\ task[i].result = "None"
          /\ task[j].result = "record"
          /\ Count(saved, j) = 1

\* C11: at every moment the number of calls of BlogScraper.scrape that are
\* in progress is at most the workers option, whatever the number of links.
C11_InProgressAtMostWidth ==
    Cardinality({i \in DOMAIN task : task[i].st = "running"}) <= width

\* The pool is full: as many calls in progress as the option allows, and a
\* link still waiting in the queue.
C11_Witness ==
    /\ cliPc = "pool"
    /\ width > 1
    /\ Cardinality({i \in DOMAIN task : task[i].st = "running"}) = width
    /\ \E i \in DOMAIN task : task[i].st = "queued"

(***************************************************************************)
(* Claims about the loop over the sources.                                 *)
(***************************************************************************)
Visited == visit.k > 0

\* C12: a source name that is not registered is skipped without a call of
\* find_blog_links and without a fetch; find_blog_links itself returns
\* ([], 0) for such a name; the sources are visited in the order given and
\* the run ends only after all of them were visited, the registered ones by
\* a call of find_blog_links.
C12_UnknownSourceOnlySkipped ==
    /\ Visited => visit.k <= Len(wanted) /\ visit.name = wanted[visit.k]
    /\ (Visited /\ visit.name \notin KnownSources) =>
           ~visit.called /\ ~visit.fetched /\ task = <<>>
    /\ (Visited /\ visit.name \in KnownSources) => visit.called
    /\ cliPc = "done" => visit.k = Len(wanted)
    /\ \A name \in SourceNames \ KnownSources,
          index \in IndexPages(LoopMaxLinks), lim \in Limits :
          FindBlogLinks(name, index, lim) = NoLinks

\* The run ended; its first source was not registered, its second one was
\* fetched and its links went through the pool.
C12_Witness ==
    /\ cliPc = "done"
    /\ Len(wanted) = 2
    /\ wanted[1] \notin KnownSources
    /\ visit.k = 2
    /\ visit.called /\ visit.fetched
    /\ task # <<>>

\* C13, as stated: for every registered source, find_blog_links constructs
\* the scraper and reaches the fetch of the index page.
C13_RegisteredSourceReachesFetch ==
    (Visited /\ visit.name \in KnownSources) => visit.called /\ visit.fetched

\* C14: when find_blog_links returns no link, no call is submitted to a pool
\* (a pool never runs with no link), nothing is saved or reported, and the
\* run is at the next source; it ends only after all sources were visited.
C14_EmptyDiscoveryEndsQuietly ==
    /\ (Visited /\ visit.called /\ found.links = <<>>) =>
           /\ cliPc \in {"loop", "done"}
           /\ task = <<>> /\ saved = <<>> /\ reported = <<>>
           /\ Len(sources) = Len(wanted) - visit.k
    /\ cliPc = "pool" => task # <<>>
    /\ cliPc = "done" => visit.k = Len(wanted) /\ sources = <<>>

\* The index page of the first source was fetched and had no link, and the
\* run stands before its next source.
C14_Witness ==
    /\ cliPc = "loop"
    /\ visit.k = 1
    /\ visit.called /\ visit.fetched
    /\ found.links = <<>>
    /\ sources # <<>>

FirstN(seq, n) == SubSeq(seq, 1, IF n < Len(seq) THEN n ELSE Len(seq))

\* C15, as stated: for every limit given, find_blog_links returns at most
\* limit links, namely the first limit links found on the index page, and
\* the count it returns is the number of links returned.
C15_LinksBoundedByLimit ==
    (Visited /\ visit.called /\ limit.given) =>
        /\ Len(found.links) <= limit.n
        /\ found.links = FirstN(found.discovered, limit.n)
        /\ found.count = Len(found.links)

(***************************************************************************)
(* Claims about the entries of the feed-based scrapers.                    *)
(***************************************************************************)
\* C16, as stated: no entry with empty content (after cleaning) or with an
\* empty title is emitted, on the RSS pass or on the API pass.
C16_NoEmptyEntryEmitted ==
    \A i \in DOMAIN emitted :
        emitted[i].content # Empty /\ emitted[i].title # Empty

\* a comes before b in the order of the source: the feed first, in feed
\* order, then the API pages in ascending order, each in response order.
Before(a, b) ==
    \/ a.chan = "rss" /\ b.chan = "api"
    \/ /\ a.chan = b.chan
       /\ \/ a.page < b.page
          \/ a.page = b.page /\ a.idx < b.idx

\* C19: the entries are emitted in the order of the source: the entries of
\* the feed in feed order, then the posts of the API pages in ascending page
\* order and, within a page, in response order.  Every emission of a run
\* appends one entry, whose item comes after the item of the entry emitted
\* before it.
C19_EmissionInSourceOrder ==
    [][(emitted' # emitted /\ emitted' # <<>>) =>
           /\ Len(emitted') = Len(emitted) + 1
           /\ SubSeq(emitted', 1, Len(emitted)) = emitted
           /\ origin'.chan = emitted'[Len(emitted')].via
           /\ emitted # <<>> => Before(origin, origin')]_vars

\* An entry of the feed was emitted, then a post of a later page than the
\* first of the API.
C19_Witness ==
    /\ Len(emitted) = 2
    /\ emitted[1].via = "rss"
    /\ origin.chan = "api" /\ origin.page > 1

\* The timestamp fields in their order of priority.
FirstDate(e) ==
    IF e.published_parsed THEN "published_parsed"
    ELSE IF e.published.has /\ e.published.parses THEN "published"
    ELSE IF e.updated_parsed THEN "updated_parsed"
    ELSE IF e.updated.has /\ e.updated.parses THEN "updated"
    ELSE "now"

\* The embedded content of the feed, or the summary when it is absent or
\* empty.
FeedContent(e) == IF e.hasContent /\ e.content # Empty THEN e.content ELSE e.summary

\* C17, as stated: every feed item (with a title and content) yields an entry
\* whose timestamp is the first that parses of published_parsed, published,
\* updated_parsed, updated, and the current time when none does.
C17_TimestampByPriority ==
    (iItems > 0 /\ CleanContent(iItem.content) # Empty) =>
        /\ iOut.yielded
        /\ iOut.published_at = FirstDate(iItem)

\* C18, as stated: the content of an entry is the embedded content of the
\* feed item, or its summary when the embedded content is absent or empty;
\* an item with an empty embedded content and a summary is emitted with the
\* summary.  (Items that have a parsed date and whose article page gave no
\* content.)
C18_ContentFallsBackToSummary ==
    (iItems > 0 /\ iItem.published_parsed /\ iItem.page = Empty
        /\ CleanContent(FeedContent(iItem)) # Empty) =>
        /\ iOut.yielded
        /\ iOut.content = IF iScraper = "meta" THEN CleanContent(FeedContent(iItem))
                          ELSE FeedContent(iItem)

(***************************************************************************)
(* Claims about AllThingsDistributedScraper.                               *)
(***************************************************************************)
\* The text of the title tag with the suffix " | All Things Distributed"
\* removed.
WithoutSiteSuffix(t) ==
    IF t.present /\ t.text # <<>> /\ t.text[Len(t.text)] = SiteName
    THEN SubSeq(t.text, 1, Len(t.text) - 1)
    ELSE IF t.present THEN t.text ELSE <<>>

\* C20, as stated: the title is the first non-empty one of the og:title
\* meta, the itemprop=name meta, the JSON-LD headline, the h1 text, the
\* title tag with the site suffix removed, and "Untitled" when there is none.
C20_TitleByPriority ==
    metadata # <<>> =>
        metadata =
            OrElse(MetaContent(soup.og),
            OrElse(MetaContent(soup.name),
            OrElse(Headline(soup.ld),
            OrElse(H1Text(soup.h1),
            OrElse(WithoutSiteSuffix(soup.title), <<"Untitled">>)))))

(***************************************************************************)
(* Claims about the seen-set of MetaEngineeringScraper.                    *)
(***************************************************************************)
\* C30, as stated: in the first run of a scraper object the URLs marked seen
\* are the URLs of the entries emitted so far.
C30_SeenIsEmitted ==
    ~prevRun.ran => processed_urls = EmittedUrls

(***************************************************************************)
(* Claims about the paginated reader of MetaEngineeringScraper.            *)
(***************************************************************************)
\* The number of items scrape() has gone through when it is at the item of
\* place pl, for feeds of MaxFeed entries and pages of MaxPosts posts.
Rank(pl) ==
    IF pl.chan = "rss" THEN pl.idx
    ELSE IF pl.chan = "api" THEN MaxFeed + (pl.page - 1) * MaxPosts + pl.idx
    ELSE 0

\* The steps one page can take at most: its request, its posts, and the
\* reading of the header; and the steps the pages from p on can take.
PagesLeft(p) ==
    IF p > PageCap THEN 0 ELSE (PageCap - p + 1) * (MaxPosts + 2)

\* An upper bound of the steps a run has still to take.
StepsLeft ==
    CASE pc = "idle" -> MaxFeed + PagesLeft(1) + 2
      [] pc = "parse" -> MaxFeed + PagesLeft(1) + 1
      [] pc = "rss" -> (feedLen - rssIdx + 1) + PagesLeft(1)
      [] pc = "api" -> PagesLeft(page)
      [] pc = "posts" -> (postsLen - postIdx + 1) + 1 + PagesLeft(page + 1)
      [] OTHER -> 0

\* C26: a run terminates, since every step of it brings a bound of the steps
\* still to take down, never below zero; and it emits at most one entry per
\* feed entry and per post of at most 5 pages, that is at most
\* MaxFeed + 5 * MaxPosts entries, whatever the total-page headers say.
C26_FiniteRun ==
    [][/\ StepsLeft' < StepsLeft
       /\ StepsLeft' >= 0
       /\ Len(requested') <= PageCap
       /\ Len(emitted') <= Rank(origin')
       /\ Rank(origin') <= MaxFeed + PageCap * MaxPosts]_vars

\* A run that ended after five pages, the last of which announced more, with
\* an entry from the feed and an entry from the last page.
C26_Witness ==
    /\ pc = "done"
    /\ Len(requested) = PageCap
    /\ header.kind = "int" /\ header.value > PageCap
    /\ Len(emitted) = 2
    /\ emitted[1].via = "rss"
    /\ origin = Place("api", PageCap, MaxPosts)

\* C27: only feedparser.parse makes scrape() raise; a page request that
\* fails or gives an empty page ends the pass at once, with the entries
\* emitted so far and no further request, and so does a total-page header
\* that is not an integer, read after the last post of the page; once the
\* pass is over nothing more is requested or emitted in that run.
C27_PageFailureEndsPass ==
    [][/\ pc' = "raised" => pc \in {"parse", "raised"}
       /\ (pc = "api" /\ answer' \in {"error", "empty"}) =>
             /\ pc' = "done"
             /\ emitted' = emitted
             /\ requested' = Append(requested, page)
       /\ (pc = "posts" /\ postIdx > postsLen /\ header.kind = "bad") =>
             /\ pc' = "done"
             /\ emitted' = emitted
             /\ requested' = requested
       /\ (pc = "done" /\ pc' # "parse") =>
             /\ pc' = "done"
             /\ emitted' = emitted
             /\ requested' = requested]_vars

\* A run whose first page gave an entry and whose second page failed.
C27_Witness ==
    /\ pc = "done"
    /\ answer = "error"
    /\ requested = <<1, 2>>
    /\ emitted # <<>>
    /\ emitted[Len(emitted)].via = "api"

(***************************************************************************)
(* Claims about the per-post fetch of BlogScraper.scrape.                  *)
(***************************************************************************)
\* C25, as stated: every per-post fetch issues the warm-up GET and then the
\* real GET.
C25_AlwaysBothGets ==
    (fPath = "blog" /\ fPc = "done") =>
        /\ Len(fLog) = 2
        /\ fLog[1].call = "warmup"
        /\ fLog[2].call = "real"

\* C25, amended: the requests of a per-post fetch are the warm-up GET and,
\* only after the warm-up has returned a response (of any status), the real
\* GET, both through the same session; a warm-up that raises ends the fetch
\* with no real GET; the page that is parsed is the response of the real GET.
C25_WarmupThenReal ==
    fPath = "blog" =>
        /\ Len(fLog) <= 2
        /\ \A i \in DOMAIN fLog :
              /\ fLog[i].call = <<"warmup", "real">>[i]
              /\ fLog[i].session = fLog[1].session
        /\ Len(fLog) = 2 => fLog[1].out.kind = "status"
        /\ fPc = "real" => Len(fLog) = 1
        /\ (fPc = "extract" \/ fResult = "record") =>
              /\ Len(fLog) = 2
              /\ fParsed = 2
              /\ ~RaisesForStatus(fLog[2].out)
        /\ fPc = "done" =>
              \/ Len(fLog) = 2
              \/ Len(fLog) = 1 /\ fLog[1].out.kind = "timeout"

\* A fetch that gave a record although its warm-up GET was answered 503.
C25_Witness ==
    /\ fPath = "blog"
    /\ fResult = "record"
    /\ fLog[1].out = StatusOf(503)
    /\ fLog[2].call = "real"
    /\ fParsed = 2

(***************************************************************************)
(* Claims about the order of the work in the scrape command.               *)
(***************************************************************************)
\* The stage of a link of the current source: 1 while its fetch and
\* extraction are waiting or running, 2 while its result is being handled,
\* 3 when it is done.
Stage(st) ==
    IF st \in {"queued", "running"} THEN 1
    ELSE IF st \in {"finished", "saving"} THEN 2
    ELSE 3

\* C28: a per-link fetch starts only inside the pool of the source whose
\* link discovery returned last, for a link that discovery returned; link
\* discovery (or the skipping) of the next source starts only when every
\* submitted fetch of the current source has completed and was handled; and
\* within a source no link ever goes back a stage.
C28_SourcesOneAfterAnother ==
    [][/\ \A i \in DOMAIN task' :
             (task'[i].st = "running" /\ i \in DOMAIN task
                  /\ task[i].st = "queued") =>
                 /\ cliPc = "pool"
                 /\ visit.called
                 /\ visit.name = Head(sources)
                 /\ i \in DOMAIN found.links
       /\ visit'.k # visit.k =>
             /\ cliPc = "loop"
             /\ \A i \in DOMAIN task : task[i].st = "handled"
       /\ visit'.k = visit.k =>
             /\ DOMAIN task' = DOMAIN task
             /\ \A i \in DOMAIN task : Stage(task'[i].st) >= Stage(task[i].st)
       /\ cliPc' # cliPc =>
             <<cliPc, cliPc'>> \in {<<"start", "loop">>, <<"loop", "pool">>,
                                   <<"pool", "loop">>, <<"loop", "done">>}]_vars

\* The pool of a source has ended with two links or more, all handled, and
\* the next source, a registered one, is about to be discovered.
C28_Witness ==
    /\ cliPc = "loop"
    /\ visit.called
    /\ Len(task) >= 2
    /\ \A i \in DOMAIN task : task[i].st = "handled"
    /\ saved # <<>>
    /\ sources # <<>>
    /\ Registered(Head(sources))

\* C29: db.save_post and the JSON writing are only ever run by the thread
\* of the command, for one completed future at a time: no two of them are
\* in progress together, and the threads of the pool, which may be running
\* BlogScraper.scrape meanwhile, run none.
C29_SavesOnMainThreadOnly ==
    /\ \A w \in writing :
          /\ w.by = MainThread
          /\ w.link \in DOMAIN task
          /\ task[w.link].st = "saving"
          /\ task[w.link].result = "record"
    /\ Cardinality(writing) <= 1
    /\ \A i \in DOMAIN task : task[i].st = "saving" => \E w \in writing : w.link = i

\* A save in progress while a thread of the pool is running a fetch and
\* another completed record is waiting for its turn.
C29_Witness ==
    /\ Cardinality(writing) = 1
    /\ Running # {}
    /\ \E i \in DOMAIN task : task[i].st = "finished" /\ task[i].result = "record"

(***************************************************************************)
(* Claims about the storage.                                               *)
(***************************************************************************)
RowsOf(u) == {r \in dbPosts : r.url = u}

\* C24: the posts table holds at most one row per URL, none for a URL that
\* was never saved successfully, and the row of a URL carries the title,
\* content, author, date (a datetime as its isoformat text) and source of
\* the most recent successful save for that URL.
C24_UpsertByUrl ==
    \A u \in URLs :
        /\ Cardinality(RowsOf(u)) <= 1
        /\ ~dbLast[u].saved => RowsOf(u) = {}
        /\ dbLast[u].saved =>
              \E r \in RowsOf(u) :
                  /\ r.title = dbLast[u].data.title
                  /\ r.content = dbLast[u].data.content
                  /\ r.author = dbLast[u].data.author
                  /\ r.published_date = PublishedDate(dbLast[u].data.published_date)
                  /\ r.source_name = dbLast[u].data.source_name

\* A URL saved a second time with another title, with a failed call after
\* it: the table holds the one row of the second save.
C24_Witness ==
    /\ dbSeq = 2
    /\ dbReturned = "False"
    /\ \E r \in dbPosts :
          /\ dbPosts = {r}
          /\ r.id = 2
          /\ r.title = "t2"
          /\ r.published_date = IsoText(1)

(***************************************************************************)
(* Claims about extract_metadata of the index-based scrapers.              *)
(***************************************************************************)
\* The title sources a scraper reads, and whether one of them has a text.
TitleSources(s, doc) ==
    IF s = "AllThingsDistributed"
    THEN {MetaContent(doc.titles.og), MetaContent(doc.titles.name),
          Headline(doc.titles.ld), H1Text(doc.titles.h1),
          TitleTagText(doc.titles.title)}
    ELSE {H1Text(doc.titles.h1)}

\* The date text a scraper reads is there and is in the scraper's format.
DateUsable(s, doc) ==
    /\ doc.date.present
    /\ \/ s = "AllThingsDistributed" /\ doc.date.text.fmt = "B d, Y"
       \/ s = "Martin Kleppmann" /\ doc.date.text.fmt = "d B Y"
       \/ s = "Lyft Engineering" /\ doc.date.datetime.fmt = "iso"

\* C21, as stated: a page with no usable title source gets the title
\* "Untitled", and a page whose date is absent or unparseable gets no
\* published_date.
C21_MissingFieldsDefault ==
    postScraper # "none" =>
        /\ TitleSources(postScraper, postPage) = {<<>>} =>
              postMeta.title = <<"Untitled">>
        /\ ~DateUsable(postScraper, postPage) => postMeta.published_date = NoDate

\* C23: the scrapers of AllThingsDistributed and Martin Kleppmann return
\* their fixed author for every page, with or without author markup.
C23_FixedAuthor ==
    /\ postScraper = "AllThingsDistributed" => postMeta.author = "Werner Vogels"
    /\ postScraper = "Martin Kleppmann" => postMeta.author = "Martin Kleppmann"

\* A page that names another author, given to the scraper of
\* AllThingsDistributed.
C23_Witness ==
    /\ postScraper = "AllThingsDistributed"
    /\ postPage.author = AuthorElem(TRUE, "Jane Doe")
    /\ postMeta.author = "Werner Vogels"

(***************************************************************************)
(* Claims about extract_blog_links of the index-based scrapers.            *)
(***************************************************************************)
\* The positions, in document order, of the elements of the page that
\* satisfy Wanted.
Positions(Wanted(_)) ==
    SelectSeq([i \in 1..Len(linkPage) |-> i], LAMBDA i : Wanted(linkPage[i]))

Matching(e) == Selected(linkScraper, e)
MatchingWithLink(e) == Selected(linkScraper, e) /\ HasLink(e)

\* url is absolute and is what the reference ref gives against the base URL
\* of the scraper: ref itself when it is absolute, and otherwise the scheme
\* and host of the base URL with the path of ref, from the root of the site
\* or from the directory of the base URL.
ResolvedFrom(url, ref) ==
    LET base == BaseUrl(linkScraper) IN
    /\ url.scheme # "" /\ url.host # ""
    /\ ref.scheme # "" => url = Url(ref.scheme, ref.host, ref.path)
    /\ ref.scheme = "" =>
          /\ url.scheme = base.scheme /\ url.host = base.host
          /\ url.path = IF ref.rooted THEN ref.path
                        ELSE SubSeq(base.path, 1, Len(base.path) - 1) \o ref.path

\* The list returned has one URL for each element at the positions ps, in
\* that order, resolved from the first <a> with an href of the element.
OnePerElement(ps) ==
    /\ Len(blogLinks) = Len(ps)
    /\ \A k \in 1..Len(ps) :
          ResolvedFrom(blogLinks[k], FindAnchor(linkPage[ps[k]].anchors).href)

====
